---- MODULE Spec2Model ----
(***************************************************************************)
(* Model of app.py (FIRMS hotspot map for Sicily, a Streamlit script).     *)
(*                                                                         *)
(* The script is re-executed top to bottom for every session interaction.  *)
(* get_firms_df is wrapped by st.cache_data(ttl = CACHE_HOURS * 3600): a   *)
(* process-wide cache keyed by the call arguments, with a per-key compute  *)
(* lock taken on a miss (double-checked), released when the wrapped        *)
(* function returns or raises.                                             *)
(*                                                                         *)
(* Units.  Time: one tick = 15 minutes (so 6 h = 24 ticks).                *)
(*         frp: tenths of a MW.  bright_ti4: kelvin.                       *)
(*         scan, track: 1e-4 degree.  latitude, longitude: 1e-6 degree.    *)
(*         radius: 1/1500 px (makes every radius of both formulas an       *)
(*         integer).                                                       *)
(***************************************************************************)
EXTENDS Integers, Sequences, FiniteSets, TLC

\* ------------------------------------------------------------------ bounds
MaxTime == 2
MaxFetch == 2
MaxRows == 2

\* ------------------------------------------------------- program constants
\* CACHE_HOURS * 3600 seconds = 30 minutes = 2 ticks
ttl == 2

Sessions == {"s1", "s2"}
\* the parameter tuples (bbox, days, api_key, source) get_firms_df is called with
Keys == {"k1", "k2"}
None == "none"

Min(a, b) == IF a <= b THEN a ELSE b
Max(a, b) == IF a >= b THEN a ELSE b
\* np.clip(x, lo, hi)
Clip(x, lo, hi) == Max(lo, Min(x, hi))

\* ------------------------------------------------------------ the records
\* A CSV row.  acq is the acquisition instant (ticks, relative to process
\* start; negative = before it); timeok is FALSE when acq_date/acq_time do
\* not match the strict format "%Y-%m-%d %H%M".
Row(lat, lon, acq, frp, bright, scan, track, timeok) ==
    [latitude |-> lat, longitude |-> lon, acq |-> acq, frp |-> frp,
     bright_ti4 |-> bright, scan |-> scan, track |-> track, timeok |-> timeok]

\* pd.DataFrame(): no columns, no rows
EmptyDF == [cols |-> "none", rows |-> << >>]

\* DataFrame.empty
IsEmpty(df) == Len(df.rows) = 0

\* f"https://firms.../{api_key}/{source}/{w},{s},{e},{n}/{days}": one URL per tuple
Url(k) == <<"url", k>>

\* ---------------------------------------------------------- upstream data
\* Bodies the provider can answer with status 200.  fmt "nodata" is a body
\* pd.read_csv cannot read (EmptyDataError); cols says which of the columns
\* the header carries: "all", "noacq" (acq_date or acq_time absent) or
\* "nolat" (acq_date and acq_time present, another required column absent).
Body(fmt, cols, rows) == [fmt |-> fmt, cols |-> cols, rows |-> rows]

RowA == Row(37500000, 14000000, -30, 0, 350, 40, 40, TRUE)
RowBad == Row(37500000, 14000000, -30, 30, 350, 40, 40, FALSE)

\* well-formed answers: rows, a header alone, a row with a malformed time
Payloads ==
    { Body("csv", "all", <<RowA>>),
      Body("csv", "all", << >>),
      Body("csv", "all", <<RowA, RowBad>>) }

\* answers with a defective schema, and a zero-byte answer
SchemaPayloads ==
    { Body("csv", "noacq", <<RowA>>),
      Body("csv", "nolat", <<RowA>>),
      Body("nodata", "none", << >>) }

\* how the request of line 52 can end: a success status, a non-success status
\* (raise_for_status raises), or requests.get raising (timeout, network error)
Statuses == {"ok", "httperr", "timeout"}

\* ------------------------------------------------------------------ state
VARIABLES
    now,        \* the clock, in ticks
    cache,      \* st.cache_data storage of get_firms_df: key -> entry
    lock,       \* compute lock of each key: the session holding it, or None
    reqs,       \* requests.get calls sent so far, per key
    pc,         \* where each session's script run stands
    arg,        \* the tuple the session's run passed to get_firms_df
    fetched,    \* requests.get calls sent by the session's run in progress
    resp,       \* status and body of the answer to the request of the run in progress
    got,        \* what get_firms_df returned to the session's run in progress
    api_calls,  \* st.session_state.api_calls of each session
    created,    \* cache entries each session's runs have written
    parseFail,  \* runs of each session that raised after line 53
    view        \* what the session's current run put on the page

vars == <<now, cache, lock, reqs, pc, arg, fetched, resp, got, api_calls, created,
          parseFail, view>>

NoEntry == [present |-> FALSE, df |-> EmptyDF, ver |-> 0, ts |-> 0]
NoResult == [present |-> FALSE, df |-> EmptyDF, ver |-> 0, url |-> Url("k1")]
NoBody == Body("nodata", "none", << >>)
NoResp == [status |-> "none", body |-> NoBody]
NoClick == [set |-> FALSE, lat |-> 0, lng |-> 0]
NoDetails == [found |-> FALSE, row |-> RowA]
BlankView == [warning |-> FALSE, markers |-> << >>, mapShown |-> FALSE,
              clicked |-> NoClick, details |-> NoDetails]

Finished == {"idle", "raised", "stopped", "rendered"}

TotalReqs == reqs["k1"] + reqs["k2"]

\* ------------------------------------------------------- the cache wrapper
\* faulty variants of Valid: a cache that never serves, a window closed one tick late
Valid_NeverHit(k) == FALSE
Valid_Inclusive(k) == cache[k].present /\ now <= cache[k].ts + ttl

\* TTL test of the cache: an entry written at ts is served while now < ts + ttl
Valid(k) == cache[k].present /\ now < cache[k].ts + ttl

\* faulty variant of LockFree: no compute lock
LockFree_NoLock(k) == TRUE

\* the per-key compute lock can be taken
LockFree(k) == lock[k] = None

\* faulty variant of Raises: raise_for_status() left out
Raises_Unchecked(status) == status = "timeout"

\* r.raise_for_status(), and requests.get raising on timeout / network error
Raises(status) == status # "ok"

\* the body of get_firms_df after line 53: "raise" or the DataFrame returned
FirmsBody(body) ==
    IF body.fmt = "nodata" THEN [raise |-> TRUE, df |-> EmptyDF]
    ELSE IF Len(body.rows) = 0 \/ body.cols = "noacq"
         THEN [raise |-> FALSE, df |-> EmptyDF]
    ELSE IF \E i \in 1..Len(body.rows) : ~body.rows[i].timeok
         THEN [raise |-> TRUE, df |-> EmptyDF]
    ELSE [raise |-> FALSE, df |-> [cols |-> body.cols, rows |-> body.rows]]

\* what a cache hit hands back: the stored (df, url)
Stored(k) == [present |-> TRUE, df |-> cache[k].df, ver |-> cache[k].ver,
              url |-> Url(k)]

\* ------------------------------------------------------------- classifier
\* color_by_age (lines 72-81); hrs <= 6 is (t - ts) <= 24 ticks
color_by_age(ts, t) ==
    LET q == t - ts
    IN  IF q <= 24 THEN "red"
        ELSE IF q <= 48 THEN "orange"
        ELSE IF q <= 144 THEN "yellow"
        ELSE "gray"

\* faulty variant of stroke_by_age: the upper bounds taken as exclusive
stroke_by_age_Exclusive(ts, t) ==
    LET q == t - ts
    IN  IF q < 24 THEN "red" ELSE IF q < 48 THEN "orange" ELSE "gray"

\* stroke_by_age (lines 122-124), the colour the marker loop uses
stroke_by_age(ts, t) ==
    LET q == t - ts
    IN  IF q <= 24 THEN "red" ELSE IF q <= 48 THEN "orange" ELSE "gray"

\* radius_by_intensity as first defined (lines 103-108), in 1/1500 px:
\* b_norm = cb/100, frp_norm = cf/500, fp_norm = cs/100, score = their mean
radius_by_intensity_1(row) ==
    LET cb == Clip(row.bright_ti4 - 300, 0, 100)
        cf == Clip(row.frp, 0, 500)
        cs == Clip(row.scan + row.track, 0, 100)
    IN  9000 + 14 * (5 * cb + cf + 5 * cs)

\* faulty variant of radius_by_intensity: the lower clip bound lost
radius_by_intensity_NoFloor(row) == Clip(15 * row.frp, 0, 15000) + 7500

\* radius_by_intensity as redefined (lines 127-129), the binding in force
\* when the marker loop runs: clip(frp / 10, 0.5, 10) + 5, in 1/1500 px
radius_by_intensity(row) == Clip(15 * row.frp, 750, 15000) + 7500

\* icon_by_stage (lines 83-92); not called by the marker loop
icon_by_stage(frp, brightness) ==
    IF frp >= 500 \/ brightness >= 367 THEN "fire"
    ELSE IF frp >= 100 THEN "triangle-exclamation"
    ELSE IF frp > 0 \/ brightness >= 330 THEN "temperature-high"
    ELSE None

\* one folium.CircleMarker of the loop at lines 131-148
Marker(row, t) ==
    [latitude |-> row.latitude, longitude |-> row.longitude,
     radius |-> radius_by_intensity(row),
     color |-> stroke_by_age(row.acq, t),
     row |-> row]

\* ------------------------------------------------------ selection resolver
\* round(x, 5) of a coordinate given in 1e-6 degree, in 1e-5 degree
Round5(x) ==
    LET q == x \div 10
        r == x % 10
    IN  IF r < 5 THEN q
        ELSE IF r > 5 THEN q + 1
        ELSE IF q % 2 = 0 THEN q ELSE q + 1

\* the rows of sel (line 201), as indices in dataset order
Matches(df, click) ==
    { i \in 1..Len(df.rows) :
        /\ Round5(df.rows[i].latitude) = Round5(click.lat)
        /\ Round5(df.rows[i].longitude) = Round5(click.lng) }

\* faulty variant of FirstOf: the last matching row
FirstOf_Last(S) == CHOOSE i \in S : \A j \in S : i >= j

\* sel.iloc[0]: the position of the row shown
FirstOf(S) == CHOOSE i \in S : \A j \in S : i <= j

\* lines 199-214: the details table, if any
Resolve(df, click) ==
    IF ~click.set \/ Matches(df, click) = {} THEN NoDetails
    ELSE [found |-> TRUE, row |-> df.rows[FirstOf(Matches(df, click))]]

\* what the map component can report as last_object_clicked
Click(lat, lng) == [set |-> TRUE, lat |-> lat, lng |-> lng]
Clicks == { NoClick, Click(37500002, 13999999) }
MapClicks == Clicks \cup { Click(37501000, 14000000) }

\* ------------------------------------------------------------------- Init
Init ==
    /\ now = 0
    /\ cache = [k \in Keys |-> NoEntry]
    /\ lock = [k \in Keys |-> None]
    /\ reqs = [k \in Keys |-> 0]
    /\ pc = [s \in Sessions |-> "idle"]
    /\ arg = [s \in Sessions |-> "k1"]
    /\ fetched = [s \in Sessions |-> 0]
    /\ resp = [s \in Sessions |-> NoResp]
    /\ got = [s \in Sessions |-> NoResult]
    /\ api_calls = [s \in Sessions |-> 0]
    /\ created = [s \in Sessions |-> 0]
    /\ parseFail = [s \in Sessions |-> 0]
    /\ view = [s \in Sessions |-> BlankView]

\* ---------------------------------------------------------------- actions
\* time passes
Tick ==
    /\ now < MaxTime
    /\ now' = now + 1
    /\ UNCHANGED <<cache, lock, reqs, pc, arg, fetched, resp, got, api_calls,
                   created, parseFail, view>>

\* A script run starts (lines 46-64) and calls get_firms_df(k): the wrapper
\* first reads the cache without the lock.
Run(s, k) ==
    /\ pc[s] \in Finished
    /\ arg' = [arg EXCEPT ![s] = k]
    /\ fetched' = [fetched EXCEPT ![s] = 0]
    /\ resp' = [resp EXCEPT ![s] = NoResp]
    /\ view' = [view EXCEPT ![s] = BlankView]
    /\ IF Valid(k)
       THEN /\ got' = [got EXCEPT ![s] = Stored(k)]
            /\ pc' = [pc EXCEPT ![s] = "returned"]
       ELSE /\ got' = [got EXCEPT ![s] = NoResult]
            /\ pc' = [pc EXCEPT ![s] = "waiting"]
    /\ UNCHANGED <<now, cache, lock, reqs, api_calls, created, parseFail>>

\* On a miss the wrapper takes the key's compute lock and reads the cache
\* again; still a miss: the function body starts and line 52 sends the request.
Acquire(s) ==
    /\ pc[s] = "waiting"
    /\ LockFree(arg[s])
    /\ IF Valid(arg[s])
       THEN /\ got' = [got EXCEPT ![s] = Stored(arg[s])]
            /\ pc' = [pc EXCEPT ![s] = "returned"]
            /\ UNCHANGED <<lock, reqs, fetched>>
       ELSE /\ TotalReqs < MaxFetch
            /\ lock' = [lock EXCEPT ![arg[s]] = s]
            /\ reqs' = [reqs EXCEPT ![arg[s]] = @ + 1]
            /\ fetched' = [fetched EXCEPT ![s] = @ + 1]
            /\ pc' = [pc EXCEPT ![s] = "fetching"]
            /\ UNCHANGED got
    /\ UNCHANGED <<now, cache, arg, resp, api_calls, created, parseFail, view>>

\* faulty variant of Bump: the counter statement left out
Bump_Forgotten(n) == n

\* the counter statement of line 53
Bump(n) == n + 1

\* faulty variant of Write: the computed value is not stored
Write_Dropped(k, df, ver) == cache

\* the cache after the wrapper writes the value computed for k
Write(k, df, ver) ==
    [cache EXCEPT ![k] = [present |-> TRUE, df |-> df, ver |-> ver, ts |-> now]]

\* The request of line 52 ends (lines 52-62), the wrapper stores what the
\* body returned and the lock is released, also when the body raised.
Response(s, status, body) ==
    /\ pc[s] \in {"fetching", "refetching"}
    /\ lock' = [lock EXCEPT ![arg[s]] = None]
    /\ resp' = [resp EXCEPT ![s] =
                  [status |-> status,
                   body |-> IF status = "ok" THEN body ELSE NoBody]]
    /\ IF Raises(status)
       THEN /\ pc' = [pc EXCEPT ![s] = "raised"]
            /\ UNCHANGED <<cache, got, api_calls, created, parseFail>>
       ELSE /\ api_calls' = [api_calls EXCEPT ![s] = Bump(@)]
            /\ IF FirmsBody(body).raise
               THEN /\ pc' = [pc EXCEPT ![s] = "raised"]
                    /\ parseFail' = [parseFail EXCEPT ![s] = @ + 1]
                    /\ UNCHANGED <<cache, got, created>>
               ELSE /\ cache' = Write(arg[s], FirmsBody(body).df, reqs[arg[s]])
                    /\ got' = [got EXCEPT ![s] =
                                 [present |-> TRUE, df |-> FirmsBody(body).df,
                                  ver |-> reqs[arg[s]], url |-> Url(arg[s])]]
                    /\ created' = [created EXCEPT ![s] = @ + 1]
                    /\ pc' = [pc EXCEPT ![s] = "returned"]
                    /\ UNCHANGED parseFail
    /\ UNCHANGED <<now, reqs, arg, fetched, view>>

\* The rest of the script (lines 66-214) once get_firms_df has returned; the
\* run ends, and with it the run's variables.
Render(s, click) ==
    /\ pc[s] = "returned"
    /\ got' = [got EXCEPT ![s] = NoResult]
    /\ resp' = [resp EXCEPT ![s] = NoResp]
    /\ fetched' = [fetched EXCEPT ![s] = 0]
    /\ IF IsEmpty(got[s].df)
       THEN /\ view' = [view EXCEPT ![s] = [BlankView EXCEPT !.warning = TRUE]]
            /\ pc' = [pc EXCEPT ![s] = "stopped"]
       ELSE IF got[s].df.cols # "all"
       THEN /\ view' = [view EXCEPT ![s] = BlankView]
            /\ pc' = [pc EXCEPT ![s] = "raised"]
       ELSE /\ view' = [view EXCEPT ![s] =
                  [warning |-> FALSE,
                   markers |-> [i \in 1..Len(got[s].df.rows) |->
                                   Marker(got[s].df.rows[i], now)],
                   mapShown |-> TRUE,
                   clicked |-> click,
                   details |-> Resolve(got[s].df, click)]]
            /\ pc' = [pc EXCEPT ![s] = "rendered"]
    /\ UNCHANGED <<now, cache, lock, reqs, arg, api_calls, created, parseFail>>

Next ==
    \/ Tick
    \/ \E s \in Sessions, k \in Keys : Run(s, k)
    \/ \E s \in Sessions : Acquire(s)
    \/ \E s \in Sessions, status \in Statuses, body \in Payloads :
          Response(s, status, body)
    \/ \E s \in Sessions, click \in Clicks : Render(s, click)

Spec == Init /\ [][Next]_vars

\* the same program, the provider also answering with defective schemas
NextSchema ==
    \/ Tick
    \/ \E s \in Sessions, k \in Keys : Run(s, k)
    \/ \E s \in Sessions : Acquire(s)
    \/ \E s \in Sessions, status \in Statuses,
          body \in Payloads \cup SchemaPayloads : Response(s, status, body)
    \/ \E s \in Sessions, click \in Clicks : Render(s, click)

SpecSchema == Init /\ [][NextSchema]_vars

\* ------------------------------------------------ the manual refresh trigger
\* "Refresh now": a run that calls the retrieval with the cache validity test
\* bypassed.
Refresh(s, k) ==
    /\ pc[s] \in Finished
    /\ arg' = [arg EXCEPT ![s] = k]
    /\ fetched' = [fetched EXCEPT ![s] = 0]
    /\ resp' = [resp EXCEPT ![s] = NoResp]
    /\ view' = [view EXCEPT ![s] = BlankView]
    /\ got' = [got EXCEPT ![s] = NoResult]
    /\ pc' = [pc EXCEPT ![s] = "forcing"]
    /\ UNCHANGED <<now, cache, lock, reqs, api_calls, created, parseFail>>

\* the forced call takes the key's lock and sends the request, whatever the
\* cache holds
AcquireForced(s) ==
    /\ pc[s] = "forcing"
    /\ LockFree(arg[s])
    /\ TotalReqs < MaxFetch
    /\ lock' = [lock EXCEPT ![arg[s]] = s]
    /\ reqs' = [reqs EXCEPT ![arg[s]] = @ + 1]
    /\ fetched' = [fetched EXCEPT ![s] = @ + 1]
    /\ pc' = [pc EXCEPT ![s] = "refetching"]
    /\ UNCHANGED <<now, cache, arg, resp, got, api_calls, created, parseFail, view>>

NextRefresh ==
    \/ Next
    \/ \E s \in Sessions, k \in Keys : Refresh(s, k)
    \/ \E s \in Sessions : AcquireForced(s)

SpecRefresh == Init /\ [][NextRefresh]_vars

\* --------------------------------------------- rendering over many datasets
\* Rows the provider can deliver: one base row varied along each field.
\* The acquisition instants put the ages 6 h, 12 h and 36 h inside 0..MaxTime;
\* no coordinate ends in 5 (no rounding tie at the fifth decimal).
RowSpace ==
    { Row(37500000, 14000000, a, 30, 350, 40, 40, TRUE) : a \in {-23, -47, -143} }
    \cup { Row(37500000, 14000000, -200, f, 350, 40, 40, TRUE) :
              f \in {0, 50, 65, 500, 1000, 5000} }
    \cup { Row(37500000, 14000000, -200, 30, b, 40, 40, TRUE) :
              b \in {290, 400, 1000} }
    \cup { Row(37500000, 14000000, -200, 30, 350, c, c, TRUE) : c \in {10, 100} }
    \cup { Row(37500004, 14000003, -200, 30, 350, 40, 40, TRUE),
           Row(37501000, 14000000, -200, 30, 350, 40, 40, TRUE) }

\* the datasets of 1..MaxRows rows
RECURSIVE SeqsUpTo(_)
SeqsUpTo(n) ==
    IF n = 0 THEN { << >> }
    ELSE LET shorter == SeqsUpTo(n - 1)
         IN  shorter \cup { Append(q, r) : q \in shorter, r \in RowSpace }
Datasets == SeqsUpTo(MaxRows) \ { << >> }

\* The state in which session s1's first run, started at some instant, has
\* just got a dataset back from get_firms_df through a successful fetch.
InitRender ==
    \E rows \in Datasets, t \in 0..MaxTime :
        /\ now = t
        /\ cache = [k \in Keys |->
                      IF k = "k1"
                      THEN [present |-> TRUE, df |-> [cols |-> "all", rows |-> rows],
                            ver |-> 1, ts |-> t]
                      ELSE NoEntry]
        /\ lock = [k \in Keys |-> None]
        /\ reqs = [k \in Keys |-> IF k = "k1" THEN 1 ELSE 0]
        /\ pc = [s \in Sessions |-> IF s = "s1" THEN "returned" ELSE "idle"]
        /\ arg = [s \in Sessions |-> "k1"]
        /\ fetched = [s \in Sessions |-> IF s = "s1" THEN 1 ELSE 0]
        /\ resp = [s \in Sessions |->
                     IF s = "s1"
                     THEN [status |-> "ok", body |-> Body("csv", "all", rows)]
                     ELSE NoResp]
        /\ got = [s \in Sessions |->
                    IF s = "s1"
                    THEN [present |-> TRUE, df |-> [cols |-> "all", rows |-> rows],
                          ver |-> 1, url |-> Url("k1")]
                    ELSE NoResult]
        /\ api_calls = [s \in Sessions |-> IF s = "s1" THEN 1 ELSE 0]
        /\ created = [s \in Sessions |-> IF s = "s1" THEN 1 ELSE 0]
        /\ parseFail = [s \in Sessions |-> 0]
        /\ view = [s \in Sessions |-> BlankView]

NextRender == \E s \in Sessions, click \in MapClicks : Render(s, click)

SpecRender == InitRender /\ [][NextRender]_vars

\* ================================================================ claims
\* the refresh window of the entry stored for k: 30 minutes from its timestamp
InWindow(k) == cache[k].present /\ now - cache[k].ts < ttl
Fetching(k) == { s \in Sessions : pc[s] = "fetching" /\ arg[s] = k }
Failed == {"httperr", "timeout"}

\* C1: while the refresh window of a key's entry is open, the request that
\* created the entry stays the last one sent for the key, no step sends a
\* request for it or changes the entry, and a call made in the window returns
\* the stored (dataset, url).
C1_OneFetchPerWindow ==
    /\ [](\A k \in Keys : InWindow(k) => reqs[k] = cache[k].ver)
    /\ [][\A k \in Keys : InWindow(k) =>
             reqs'[k] = reqs[k] /\ cache'[k] = cache[k]]_vars
    /\ [][\A s \in Sessions, k \in Keys :
             (pc[s] \in Finished /\ pc'[s] \notin Finished /\ arg'[s] = k
              /\ InWindow(k))
             => /\ pc'[s] = "returned"
                /\ fetched'[s] = 0
                /\ got'[s] = [present |-> TRUE, df |-> cache[k].df,
                              ver |-> cache[k].ver, url |-> Url(k)]]_vars

C1_Witness ==
    \E s \in Sessions :
        /\ pc[s] = "returned" /\ fetched[s] = 0
        /\ InWindow(arg[s]) /\ got[s].ver = cache[arg[s]].ver
        /\ created[s] = 0

\* C2: a call never returns an entry whose window has elapsed; when it
\* returns and the key had no open window, it has sent exactly one request and
\* the entry is the new result, stamped now.  A step changes the entry or the
\* request count of at most one key, the key of the call that fetched.
C2_ExpiryRefetches ==
    /\ [][\A s \in Sessions, k \in Keys :
             (pc[s] # "returned" /\ pc'[s] = "returned" /\ arg'[s] = k)
             => /\ cache'[k].present /\ now' - cache'[k].ts < ttl
                /\ got'[s].df = cache'[k].df /\ got'[s].ver = cache'[k].ver
                /\ ~InWindow(k) =>
                       /\ fetched'[s] = 1
                       /\ cache'[k].ver = reqs'[k]
                       /\ cache'[k].ver # cache[k].ver
                       /\ cache'[k].ts = now']_vars
    /\ [][\A k \in Keys :
             (cache'[k] # cache[k] \/ reqs'[k] # reqs[k])
             => /\ \E s \in Sessions : arg[s] = k /\ pc'[s] # pc[s]
                /\ \A j \in Keys \ {k} :
                       cache'[j] = cache[j] /\ reqs'[j] = reqs[j]]_vars

C2_Witness ==
    \E s \in Sessions, k \in Keys :
        /\ pc[s] = "returned" /\ fetched[s] = 1 /\ arg[s] = k
        /\ reqs[k] = 2 /\ cache[k].ver = 2 /\ cache[k].ts >= ttl
        /\ created["s1"] + created["s2"] = 2

\* C3: per key at most one session is inside the function body, the key's
\* lock is held exactly while one is (so it is free again after every way out
\* of the body), and no request is in flight while the key's window is open.
C3_OneInFlight ==
    \A k \in Keys :
        /\ Cardinality(Fetching(k)) <= 1
        /\ \A s \in Sessions : lock[k] = s <=> s \in Fetching(k)
        /\ Fetching(k) # {} => ~InWindow(k)

C3_Witness ==
    \E s, t \in Sessions :
        /\ s # t /\ arg[s] = arg[t]
        /\ pc[s] = "raised" /\ resp[s].status = "timeout"
        /\ pc[t] = "fetching" /\ lock[arg[t]] = t

\* C4: a run whose request failed has raised, sent exactly one request, got
\* no dataset and put nothing of the map on the page; the failing step leaves
\* the cache and the counter as they were and the key without an open window.
C4_FailureSurfaces ==
    /\ [](\A s \in Sessions : resp[s].status \in Failed =>
             /\ pc[s] = "raised"
             /\ fetched[s] = 1
             /\ ~got[s].present
             /\ view[s] = BlankView)
    /\ [][\A s \in Sessions :
             (resp'[s].status \in Failed /\ resp[s].status \notin Failed)
             => /\ cache' = cache
                /\ api_calls' = api_calls
                /\ ~(cache'[arg[s]].present
                     /\ now' - cache'[arg[s]].ts < ttl)]_vars

C4_Witness ==
    \E s \in Sessions :
        /\ pc[s] = "raised" /\ resp[s].status = "httperr"
        /\ ~cache[arg[s]].present /\ reqs[arg[s]] = 1

\* C5 (as claimed): when a request ends with status 200 and a body that is
\* empty or lacks a required column, get_firms_df returns an empty dataset
\* instead of raising, and the run then stops on the warning with no marker
\* and no details.
BadPayload(b) == b.fmt = "nodata" \/ Len(b.rows) = 0 \/ b.cols # "all"

C5_EmptyOnBadPayload ==
    /\ [][\A s \in Sessions :
             (pc[s] = "fetching" /\ pc'[s] # "fetching"
              /\ resp'[s].status = "ok" /\ BadPayload(resp'[s].body))
             => pc'[s] = "returned" /\ IsEmpty(got'[s].df)]_vars
    /\ [][\A s \in Sessions :
             (pc[s] = "returned" /\ pc'[s] # "returned"
              /\ resp[s].status = "ok" /\ BadPayload(resp[s].body))
             => /\ pc'[s] = "stopped"
                /\ view'[s].warning
                /\ view'[s].markers = << >>
                /\ ~view'[s].details.found]_vars

\* C10: api_calls of a session is the entries it created plus its runs that
\* raised after the status check; a step adds 1 to it exactly when it ends a
\* request of the session with a success status, and otherwise leaves it.
C10_ApiCalls ==
    /\ [](\A s \in Sessions : api_calls[s] = created[s] + parseFail[s])
    /\ [][\A s \in Sessions :
             api_calls'[s] = api_calls[s] +
                 (IF pc[s] = "fetching" /\ pc'[s] # "fetching"
                     /\ resp'[s].status = "ok" THEN 1 ELSE 0)]_vars

C10_Witness ==
    \E s \in Sessions :
        api_calls[s] = 2 /\ created[s] = 1 /\ parseFail[s] = 1

\* a step in which session s draws the map
Draws(s) == pc[s] = "returned" /\ pc'[s] = "rendered"
RowsOf(s) == got[s].df.rows

\* the four tiers of the claim, on the age in ticks (6 h, 12 h, 36 h)
Tier4(q) == IF q <= 24 THEN 1 ELSE IF q <= 48 THEN 2 ELSE IF q <= 144 THEN 3 ELSE 4
\* the three tiers of the legend (lines 164-167)
Tier3(q) == IF q <= 24 THEN 1 ELSE IF q <= 48 THEN 2 ELSE 3

\* C7 (as claimed): the colours of the markers drawn in one run follow the
\* four tiers: two markers have the same colour exactly when their ages are in
\* the same tier.
C7_FourTiers ==
    [][\A s \in Sessions : Draws(s) =>
          \A i, j \in 1..Len(RowsOf(s)) :
              (view'[s].markers[i].color = view'[s].markers[j].color)
              <=> (Tier4(now - RowsOf(s)[i].acq) = Tier4(now - RowsOf(s)[j].acq))]_vars

\* C7 (amended): every marker drawn is red for an age <= 6 h, orange for
\* 6 h < age <= 12 h and gray for any age > 12 h, so two markers have the same
\* colour exactly when their ages are in the same of these three tiers.
C7_ThreeTiers ==
    [][\A s \in Sessions : Draws(s) =>
          /\ Len(view'[s].markers) = Len(RowsOf(s))
          /\ \A i \in 1..Len(RowsOf(s)) :
                 view'[s].markers[i].color =
                     <<"red", "orange", "gray">>[Tier3(now - RowsOf(s)[i].acq)]
          /\ \A i, j \in 1..Len(RowsOf(s)) :
                 (view'[s].markers[i].color = view'[s].markers[j].color)
                 <=> (Tier3(now - RowsOf(s)[i].acq)
                      = Tier3(now - RowsOf(s)[j].acq))]_vars

\* a map with a marker aged exactly 6.0 h (red) and one aged exactly 12.0 h
\* (orange), or with one aged exactly 36.0 h and one older than 36 h (both gray)
C7_Witness ==
    \E s \in Sessions :
        /\ pc[s] = "rendered"
        /\ \E i, j \in 1..Len(view[s].markers) :
               LET a == now - view[s].markers[i].row.acq
                   b == now - view[s].markers[j].row.acq
               IN  \/ a = 24 /\ b = 48
                      /\ view[s].markers[i].color = "red"
                      /\ view[s].markers[j].color = "orange"
                   \/ a = 144 /\ b > 144
                      /\ view[s].markers[i].color = "gray"
                      /\ view[s].markers[j].color = "gray"

SameKey(row, click) ==
    /\ Round5(row.latitude) = Round5(click.lat)
    /\ Round5(row.longitude) = Round5(click.lng)

C9_FirstMatch ==
    [][\A s \in Sessions :
          (pc[s] = "returned" /\ pc'[s] # "returned"
           /\ ~IsEmpty(got[s].df) /\ got[s].df.cols = "all") =>
          LET rows == RowsOf(s)
              click == view'[s].clicked
              d == view'[s].details
          IN  /\ pc'[s] = "rendered"
              /\ d.found <=>
                     (click.set /\ \E i \in 1..Len(rows) : SameKey(rows[i], click))
              /\ d.found =>
                     \E i \in 1..Len(rows) :
                         /\ d.row = rows[i]
                         /\ SameKey(rows[i], click)
                         /\ \A j \in 1..(i - 1) : ~SameKey(rows[j], click)
              /\ d.found =>
                     /\ d.row.latitude - click.lat \in -9..9
                     /\ d.row.longitude - click.lng \in -9..9
              /\ \A i \in 1..Len(rows) : view'[s].markers[i].row = rows[i]
              /\ cache' = cache]_vars

\* two rows share the clicked key and differ; the first one is shown
C9_Witness ==
    \E s \in Sessions :
        /\ pc[s] = "rendered"
        /\ view[s].clicked = Click(37500002, 13999999)
        /\ Len(view[s].markers) = 2
        /\ view[s].markers[1].row # view[s].markers[2].row
        /\ SameKey(view[s].markers[1].row, view[s].clicked)
        /\ SameKey(view[s].markers[2].row, view[s].clicked)
        /\ view[s].details.found
        /\ view[s].details.row = view[s].markers[1].row

====
